---- MODULE Spec2Model ----
(***************************************************************************)
(* Attendance / leave approval workflow of the attendance management       *)
(* backend (backend/app/routers/frontend_compat.py), as a state machine.   *)
(*                                                                         *)
(* The stored state is the relational store: employees, attendance         *)
(* records, attendance entries, leave requests and leave balances.  Every  *)
(* request handler is one action (one transaction); resp holds the name    *)
(* and HTTP status code of the last handler that answered.                 *)
(*                                                                         *)
(* Abstractions: names, phone numbers, password hashes, departments, leave *)
(* types, reasons and holiday rows do not influence any workflow decision  *)
(* and are not stored.  An e-mail address is a token 1..MaxEmp, a time of  *)
(* day is a token 1..MaxTime, a calendar date is a day number, a datetime  *)
(* is the pair <<day, time>>, None is 0 (ids, times), "" (strings) or <<>> *)
(* (datetimes), which are exactly the values Python treats as false.       *)
(***************************************************************************)
EXTENDS Integers, FiniteSets, Sequences, TLC

\* ------------------------------------------------------------- bounds
MaxEmp == 4
MaxRec == 2
MaxEntry == 1
MaxDay == 2
MaxTime == 2
MaxLeave == 3
MaxRequest == 2
MaxHoliday == 1
MaxYear == 2
MaxSpan == 3
MaxSession == 2
LongSpan == 18

\* ------------------------------------------------------------- values
None == 0
NoDatetime == <<>>
Roles == {"employee", "manager", "admin"}
EmpIds == 1..MaxEmp
Times == 1..MaxTime
Days == 1..MaxDay
Labels == {"Present", "Late"}
Sessions == 1..MaxSession

VARIABLES employees, emp_seq, att, att_seq, entries, entry_seq,
          leaves, leave_seq, balances, bal_seq, holidays, holiday_seq,
          today, current_year, resp, sess

vars == <<employees, emp_seq, att, att_seq, entries, entry_seq,
          leaves, leave_seq, balances, bal_seq, holidays, holiday_seq,
          today, current_year, resp, sess>>

userVars == <<employees, emp_seq>>
attVars == <<att, att_seq, entries, entry_seq>>
leaveVars == <<leaves, leave_seq, balances, bal_seq>>
holidayVars == <<holidays, holiday_seq>>
clockVars == <<today, current_year>>

\* The answer of a handler: its name and the HTTP status code.
Answer(op, code) == [op |-> op, code |-> code]

\* A function with one more row / one row fewer (db.add, db.delete).
Put(table, id, row) == [i \in DOMAIN table \cup {id} |-> IF i = id THEN row ELSE table[i]]
Drop(table, id) == [i \in DOMAIN table \ {id} |-> table[i]]

\* ------------------------------------------------------------- seed
\* seed_data.py on an empty database: admin (id 1), manager (id 2) and an
\* employee (id 3) who reports to the manager.
seed_data ==
    (1 :> [role |-> "admin", manager_id |-> None, email |-> 1]) @@
    (2 :> [role |-> "manager", manager_id |-> None, email |-> 2]) @@
    (3 :> [role |-> "employee", manager_id |-> 2, email |-> 3])

Init ==
    /\ employees = seed_data
    /\ emp_seq = 3
    /\ att = <<>>
    /\ att_seq = 0
    /\ entries = <<>>
    /\ entry_seq = 0
    /\ leaves = <<>>
    /\ leave_seq = 0
    /\ balances = <<>>
    /\ bal_seq = 0
    /\ holidays = <<>>
    /\ holiday_seq = 0
    /\ today = 1
    /\ current_year = 1
    /\ resp = Answer("seed_data", 200)
    /\ sess = [p \in Sessions |-> [pc |-> "idle"]]

\* ------------------------------------------------------------- users
\* role_map.get(payload.role.upper(), RoleEnum.employee); the payload role
\* is given already upper-cased.
role_map(role) ==
    CASE role = "ADMIN_MASTER" -> "admin"
      [] role = "ADMIN" -> "admin"
      [] role = "MANAGER" -> "manager"
      [] role = "EMPLOYEE" -> "employee"
      [] OTHER -> "employee"

\* POST /users.  reportingTo is the parsed integer, None when the payload has
\* no reportingTo or one that is not a number.
create_user(user, email, role, reportingTo) ==
    /\ user \in DOMAIN employees
    /\ emp_seq < MaxEmp
    /\ IF employees[user].role # "admin"
         THEN /\ resp' = Answer("create_user", 403)
              /\ UNCHANGED userVars
         ELSE IF \E e \in DOMAIN employees : employees[e].email = email
         THEN /\ resp' = Answer("create_user", 400)
              /\ UNCHANGED userVars
         ELSE /\ employees' = Put(employees, emp_seq + 1,
                                  [role |-> role_map(role),
                                   manager_id |-> reportingTo,
                                   email |-> email])
              /\ emp_seq' = emp_seq + 1
              /\ resp' = Answer("create_user", 200)
    /\ UNCHANGED <<attVars, leaveVars, clockVars, holidayVars, sess>>

\* Employee.email without the unique constraint: every UPDATE is accepted.
uq_email_absent(user_id, email) == TRUE

\* Employee.email is unique: an UPDATE is accepted only when no other
\* employee has the email.
uq_email(user_id, email) ==
    \A e \in DOMAIN employees \ {user_id} : employees[e].email # email

\* The status code with the caller's authorisation not checked.
update_user_code_open(user, user_id, email) ==
    IF user_id \notin DOMAIN employees THEN 404
    ELSE IF email # None /\ ~uq_email(user_id, email) THEN 500
    ELSE 200

\* The status code of PUT /users/{user_id}; None is an absent payload email.
\* An email the store rejects is an IntegrityError, status 500.
update_user_code(user, user_id, email) ==
    IF employees[user].role # "admin" /\ user # user_id THEN 403
    ELSE IF user_id \notin DOMAIN employees THEN 404
    ELSE IF email # None /\ ~uq_email(user_id, email) THEN 500
    ELSE 200

\* PUT /users/{user_id}: of the payload only name, email and phone are
\* applied; role and status are not.
update_user(user, user_id, email) ==
    /\ user \in DOMAIN employees
    /\ LET code == update_user_code(user, user_id, email)
       IN  /\ resp' = Answer("update_user", code)
           /\ employees' = IF code = 200 /\ email # None
                             THEN [employees EXCEPT ![user_id].email = email]
                             ELSE employees
    /\ UNCHANGED <<emp_seq, attVars, leaveVars, clockVars, holidayVars, sess>>

\* The rows that refer to an employee: records, requests, balances owned and
\* employees managed.
referenced(user_id) ==
    \/ \E r \in DOMAIN att : att[r].employee_id = user_id
    \/ \E l \in DOMAIN leaves : leaves[l].employee_id = user_id
    \/ \E b \in DOMAIN balances : balances[b].employee_id = user_id
    \/ \E e \in DOMAIN employees : employees[e].manager_id = user_id

\* The status code of DELETE /users/{user_id} up to db.delete.
delete_user_code(user, user_id) ==
    IF employees[user].role # "admin" THEN 403
    ELSE IF user_id \notin DOMAIN employees THEN 404
    ELSE 200

\* DELETE /users/{user_id}.  What the store does with the rows that refer to
\* the employee is not decided by the handler: the delete is refused (status
\* 500, nothing written), or the rows go with the employee and the managed
\* employees lose their manager, or the rows stay as they are.
delete_user(user, user_id) ==
    /\ user \in DOMAIN employees
    /\ LET code == delete_user_code(user, user_id)
           kept_att == {r \in DOMAIN att : att[r].employee_id # user_id}
           kept_leaves == {l \in DOMAIN leaves : leaves[l].employee_id # user_id}
           kept_bal == {b \in DOMAIN balances : balances[b].employee_id # user_id}
       IN  IF code # 200
             THEN /\ resp' = Answer("delete_user", code)
                  /\ UNCHANGED <<employees, att, entries, leaves, balances>>
           ELSE \/ /\ referenced(user_id)
                   /\ resp' = Answer("delete_user", 500)
                   /\ UNCHANGED <<employees, att, entries, leaves, balances>>
                \/ /\ resp' = Answer("delete_user", 200)
                   /\ employees' = [e \in DOMAIN employees \ {user_id} |->
                                      IF employees[e].manager_id = user_id
                                        THEN [employees[e] EXCEPT !.manager_id = None]
                                        ELSE employees[e]]
                   /\ att' = [r \in kept_att |-> att[r]]
                   /\ entries' = [x \in {y \in DOMAIN entries :
                                           entries[y].attendance_record_id \in kept_att}
                                    |-> entries[x]]
                   /\ leaves' = [l \in kept_leaves |-> leaves[l]]
                   /\ balances' = [b \in kept_bal |-> balances[b]]
                \/ /\ resp' = Answer("delete_user", 200)
                   /\ employees' = Drop(employees, user_id)
                   /\ UNCHANGED <<att, entries, leaves, balances>>
    /\ UNCHANGED <<emp_seq, att_seq, entry_seq, leave_seq, bal_seq,
                   clockVars, holidayVars, sess>>

\* ------------------------------------------------------------- holidays
\* POST /holidays and POST /holidays/create: only an admin adds a holiday.
create_holiday(user, name, day) ==
    /\ user \in DOMAIN employees
    /\ IF employees[user].role # "admin"
         THEN /\ resp' = Answer("create_holiday", 403)
              /\ UNCHANGED holidayVars
         ELSE /\ holiday_seq < MaxHoliday
              /\ holidays' = Put(holidays, holiday_seq + 1, [name |-> name, date |-> day])
              /\ holiday_seq' = holiday_seq + 1
              /\ resp' = Answer("create_holiday", 200)
    /\ UNCHANGED <<userVars, attVars, leaveVars, clockVars, sess>>

create_holiday_compat(user, name, day) ==
    /\ user \in DOMAIN employees
    /\ IF employees[user].role # "admin"
         THEN /\ resp' = Answer("create_holiday_compat", 403)
              /\ UNCHANGED holidayVars
         ELSE /\ holiday_seq < MaxHoliday
              /\ holidays' = Put(holidays, holiday_seq + 1, [name |-> name, date |-> day])
              /\ holiday_seq' = holiday_seq + 1
              /\ resp' = Answer("create_holiday_compat", 200)
    /\ UNCHANGED <<userVars, attVars, leaveVars, clockVars, sess>>

\* PUT /holidays/{holiday_id}: a stub that answers 501 Not Implemented.
update_holiday(user, holiday_id) ==
    /\ user \in DOMAIN employees
    /\ resp' = Answer("update_holiday", 501)
    /\ UNCHANGED <<userVars, attVars, leaveVars, clockVars, holidayVars, sess>>

\* The status code of DELETE /holidays/{holiday_id}.
delete_holiday_code(user, holiday_id) ==
    IF employees[user].role # "admin" THEN 403
    ELSE IF holiday_id \notin DOMAIN holidays THEN 404
    ELSE 200

\* DELETE /holidays/{holiday_id}.
delete_holiday(user, holiday_id) ==
    /\ user \in DOMAIN employees
    /\ LET code == delete_holiday_code(user, holiday_id)
       IN  /\ resp' = Answer("delete_holiday", code)
           /\ holidays' = IF code = 200 THEN Drop(holidays, holiday_id) ELSE holidays
    /\ UNCHANGED <<userVars, attVars, leaveVars, clockVars, holiday_seq, sess>>

\* ------------------------------------------------------------- clock
\* date.today() moves to the next day of the same year.
Tick ==
    /\ today < MaxDay
    /\ today' = today + 1
    /\ resp' = Answer("midnight", 200)
    /\ UNCHANGED <<userVars, attVars, leaveVars, holidayVars, current_year, sess>>

\* date.today() moves to the first day of the next year.
NewYear ==
    /\ current_year < MaxYear
    /\ current_year' = current_year + 1
    /\ resp' = Answer("new_year", 200)
    /\ UNCHANGED <<userVars, attVars, leaveVars, holidayVars, today, sess>>

\* ------------------------------------------------------------- attendance
\* parse_clock_time for a payload time in HH:MM form: the datetime of that
\* time on the given day; None for an empty string.
parse_clock_time(time_str, day) ==
    IF time_str = None THEN NoDatetime ELSE <<day, time_str>>

\* The employee row of an id, as db.query(Employee).filter(id == ..).first().
HasEmployee(id) == id \in DOMAIN employees

\* The lookup with the date compared against the day before.
RecordsOf_yesterday(employee_id, day) ==
    {r \in DOMAIN att : att[r].employee_id = employee_id /\ att[r].date = day - 1}

\* Rows of AttendanceRecord with filter_by(employee_id=.., date=..).
RecordsOf(employee_id, day) ==
    {r \in DOMAIN att : att[r].employee_id = employee_id /\ att[r].date = day}

\* The initial status with the owner's role not looked at.
initial_approval_status_flat(employee_id) == "Pending_Manager"

\* "Pending_Admin" if emp and emp.role == manager else "Pending_Manager".
initial_approval_status(employee_id) ==
    IF HasEmployee(employee_id) /\ employees[employee_id].role = "manager"
      THEN "Pending_Admin" ELSE "Pending_Manager"

\* The row mark_attendance adds when the employee has no record of the day.
new_record(employeeId, day, clockIn, clockOut, status) ==
    [employee_id |-> employeeId,
     date |-> day,
     check_in_time |-> parse_clock_time(clockIn, day),
     check_out_time |-> IF clockOut # None THEN parse_clock_time(clockOut, day)
                                           ELSE NoDatetime,
     status |-> status,
     approval_status |-> initial_approval_status(employeeId),
     is_confirmed |-> FALSE,
     confirmed_at |-> NoDatetime]

\* The record of the day with a repeated mark taken as a new submission:
\* back to Pending_Manager and unconfirmed.
marked_again_resubmit(rec, day, clockOut, status) ==
    [rec EXCEPT !.check_out_time = IF clockOut # None
                                     THEN parse_clock_time(clockOut, day) ELSE @,
                !.status = status,
                !.approval_status = "Pending_Manager",
                !.is_confirmed = FALSE,
                !.confirmed_at = NoDatetime]

\* The record of the day with the clock-out of a repeated mark assigned to
\* check_in_time as well.
marked_again_reclock(rec, day, clockOut, status) ==
    [rec EXCEPT !.check_in_time = IF clockOut # None
                                    THEN parse_clock_time(clockOut, day) ELSE @,
                !.check_out_time = IF clockOut # None
                                     THEN parse_clock_time(clockOut, day) ELSE @,
                !.status = status]

\* The record of the day after mark_attendance found it.
marked_again(rec, day, clockOut, status) ==
    [rec EXCEPT !.check_out_time = IF clockOut # None
                                     THEN parse_clock_time(clockOut, day) ELSE @,
                !.status = status]

\* POST /attendance/mark as one transaction.  clockIn is a required string
\* (possibly empty), clockOut is optional.
mark_attendance(user, employeeId, clockIn, clockOut, status) ==
    /\ user \in DOMAIN employees
    /\ IF RecordsOf(employeeId, today) # {}
         THEN \E r \in RecordsOf(employeeId, today) :
                /\ att' = [att EXCEPT ![r] = marked_again(@, today, clockOut, status)]
                /\ UNCHANGED att_seq
         ELSE /\ att_seq < MaxRec
              /\ att' = Put(att, att_seq + 1,
                            new_record(employeeId, today, clockIn, clockOut, status))
              /\ att_seq' = att_seq + 1
    /\ resp' = Answer("mark_attendance", 200)
    /\ UNCHANGED <<userVars, entries, entry_seq, leaveVars, clockVars, holidayVars, sess>>

\* ------------------------------------------------------------- concurrent clock-ins
\* A request session between its statements: what it has read so far.
Idle == [pc |-> "idle"]

\* The store without a uniqueness constraint on attendance records.
uq_employee_date_absent(employee_id, day) == TRUE

\* The unique constraint on (employee_id, date) of attendance_records: an
\* insert is accepted only when no committed row has the same pair.
uq_employee_date(employee_id, day) ==
    \A r \in DOMAIN att : ~(att[r].employee_id = employee_id /\ att[r].date = day)

\* mark_attendance up to its lookup: the session reads today's date and the
\* record of (employeeId, today), if any.
mark_attendance_query(p, user, employeeId, clockIn, clockOut, status) ==
    /\ user \in DOMAIN employees
    /\ sess[p].pc = "idle"
    /\ \E found \in IF RecordsOf(employeeId, today) = {}
                      THEN {None} ELSE RecordsOf(employeeId, today) :
          sess' = [sess EXCEPT ![p] =
                     [pc |-> "queried", employeeId |-> employeeId, day |-> today,
                      found |-> found, clockIn |-> clockIn, clockOut |-> clockOut,
                      status |-> status]]
    /\ UNCHANGED <<userVars, attVars, leaveVars, clockVars, holidayVars, resp>>

\* mark_attendance from its lookup on: the update of the record it found, or
\* the insert of a new one, and the commit.  An insert the store rejects is
\* an IntegrityError, answered with status 500 and nothing written.
mark_attendance_commit(p) ==
    /\ sess[p].pc = "queried"
    /\ LET s == sess[p]
       IN  IF s.found # None
             THEN /\ att' = [att EXCEPT ![s.found] =
                               marked_again(@, s.day, s.clockOut, s.status)]
                  /\ resp' = Answer("mark_attendance", 200)
                  /\ UNCHANGED att_seq
             ELSE IF uq_employee_date(s.employeeId, s.day)
             THEN /\ att_seq < MaxRec
                  /\ att' = Put(att, att_seq + 1,
                                new_record(s.employeeId, s.day, s.clockIn, s.clockOut, s.status))
                  /\ att_seq' = att_seq + 1
                  /\ resp' = Answer("mark_attendance", 200)
             ELSE /\ resp' = Answer("mark_attendance", 500)
                  /\ UNCHANGED <<att, att_seq>>
    /\ sess' = [sess EXCEPT ![p] = Idle]
    /\ UNCHANGED <<userVars, entries, entry_seq, leaveVars, clockVars, holidayVars>>

\* The status code without the direct-report check of the manager branch.
update_attendance_code_anymanager(user, record_id, approvalStatus) ==
    IF record_id \notin DOMAIN att THEN 404
    ELSE LET rec == att[record_id]
             role == employees[user].role
         IN  IF role = "employee"
               THEN IF rec.employee_id # user THEN 403
                    ELSE IF approvalStatus # "" THEN 403
                    ELSE 200
             ELSE IF role = "manager"
               THEN IF rec.employee_id = user THEN 200
                    ELSE IF approvalStatus # ""
                      THEN IF rec.approval_status # "Pending_Manager" THEN 400
                           ELSE 200
                    ELSE 200
             ELSE 200

\* The status code of PUT /attendance/{record_id}: the first HTTPException
\* the handler raises, 200 when it raises none.
update_attendance_code(user, record_id, approvalStatus) ==
    IF record_id \notin DOMAIN att THEN 404
    ELSE LET rec == att[record_id]
             role == employees[user].role
         IN  IF role = "employee"
               THEN IF rec.employee_id # user THEN 403
                    ELSE IF approvalStatus # "" THEN 403
                    ELSE 200
             ELSE IF role = "manager"
               THEN IF rec.employee_id = user THEN 200
                    ELSE IF approvalStatus # ""
                      THEN IF HasEmployee(rec.employee_id)
                                /\ employees[rec.employee_id].manager_id # user
                             THEN 403
                           ELSE IF rec.approval_status # "Pending_Manager" THEN 400
                           ELSE 200
                    ELSE 200
             ELSE 200

\* The approval_status with the manager's verification approving outright.
update_attendance_approval_skip(user, record_id, approvalStatus) ==
    LET rec == att[record_id]
        role == employees[user].role
    IN  IF role \in {"manager", "admin"} /\ rec.employee_id # user /\ approvalStatus # ""
          THEN "Approved"
        ELSE IF role = "admin" /\ approvalStatus # ""
          THEN "Approved"
        ELSE rec.approval_status

\* The approval_status with a manager's approvalStatus on the manager's own
\* record taken as an approval.
update_attendance_approval_own(user, record_id, approvalStatus) ==
    LET rec == att[record_id]
        role == employees[user].role
    IN  IF role = "manager" /\ rec.employee_id = user /\ approvalStatus # ""
          THEN "Approved"
        ELSE IF role = "manager" /\ rec.employee_id # user /\ approvalStatus # ""
          THEN "Pending_Admin"
        ELSE IF role = "admin" /\ approvalStatus # ""
          THEN "Approved"
        ELSE rec.approval_status

\* The approval_status a successful PUT /attendance/{record_id} leaves.
update_attendance_approval(user, record_id, approvalStatus) ==
    LET rec == att[record_id]
        role == employees[user].role
    IN  IF role = "manager" /\ rec.employee_id # user /\ approvalStatus # ""
          THEN "Pending_Admin"
        ELSE IF role = "admin" /\ approvalStatus # ""
          THEN "Approved"
        ELSE rec.approval_status

\* PUT /attendance/{record_id}; an absent payload is the payload with all
\* three fields empty.
update_attendance(user, record_id, approvalStatus, clockOut, status) ==
    /\ user \in DOMAIN employees
    /\ LET code == update_attendance_code(user, record_id, approvalStatus)
       IN  /\ resp' = Answer("update_attendance", code)
           /\ IF code = 200
                THEN LET rec == att[record_id]
                     IN  att' = [att EXCEPT ![record_id] =
                           [rec EXCEPT
                              !.approval_status =
                                 update_attendance_approval(user, record_id, approvalStatus),
                              !.check_out_time =
                                 IF clockOut # None
                                   THEN parse_clock_time(clockOut, rec.date) ELSE @,
                              !.status = IF status # "" THEN status ELSE @]]
                ELSE UNCHANGED att
    /\ UNCHANGED <<userVars, att_seq, entries, entry_seq, leaveVars, clockVars, holidayVars, sess>>

\* The entries of a record go with the record: an AttendanceEntry is owned
\* exclusively by its parent record.
cascade_entries(record_id) ==
    LET keep == {e \in DOMAIN entries : entries[e].attendance_record_id # record_id}
    IN  [e \in keep |-> entries[e]]

\* DELETE /attendance/{record_id}.
delete_attendance(user, record_id) ==
    /\ user \in DOMAIN employees
    /\ IF employees[user].role # "admin"
         THEN /\ resp' = Answer("delete_attendance", 403)
              /\ UNCHANGED <<att, entries>>
         ELSE IF record_id \notin DOMAIN att
         THEN /\ resp' = Answer("delete_attendance", 404)
              /\ UNCHANGED <<att, entries>>
         ELSE /\ att' = Drop(att, record_id)
              /\ entries' = cascade_entries(record_id)
              /\ resp' = Answer("delete_attendance", 200)
    /\ UNCHANGED <<userVars, att_seq, entry_seq, leaveVars, clockVars, holidayVars, sess>>

\* The status code of POST /attendance/{record_id}/entries.
create_attendance_entry_code(user, record_id, entryType) ==
    IF record_id \notin DOMAIN att THEN 404
    ELSE IF employees[user].role = "employee" /\ att[record_id].employee_id # user THEN 403
    ELSE IF entryType \notin {"in", "out"} THEN 400
    ELSE 200

\* POST /attendance/{record_id}/entries with the entry only logged: the
\* parent record is not touched.
create_attendance_entry_log_only(user, record_id, entryType, now) ==
    /\ user \in DOMAIN employees
    /\ LET code == create_attendance_entry_code(user, record_id, entryType)
       IN  /\ resp' = Answer("create_attendance_entry", code)
           /\ IF code = 200
                THEN /\ entry_seq < MaxEntry
                     /\ entries' = Put(entries, entry_seq + 1,
                            [attendance_record_id |-> record_id,
                             entry_type |-> entryType,
                             timestamp |-> <<today, now>>])
                     /\ entry_seq' = entry_seq + 1
                ELSE UNCHANGED <<entries, entry_seq>>
    /\ UNCHANGED <<userVars, att, att_seq, leaveVars, clockVars, holidayVars, sess>>

\* POST /attendance/{record_id}/entries; now is the time of day of
\* datetime.now().
create_attendance_entry(user, record_id, entryType, now) ==
    /\ user \in DOMAIN employees
    /\ LET code == create_attendance_entry_code(user, record_id, entryType)
       IN  /\ resp' = Answer("create_attendance_entry", code)
           /\ IF code = 200
                THEN /\ entry_seq < MaxEntry
                     /\ entries' = Put(entries, entry_seq + 1,
                            [attendance_record_id |-> record_id,
                             entry_type |-> entryType,
                             timestamp |-> <<today, now>>])
                     /\ entry_seq' = entry_seq + 1
                     /\ att' = IF entryType = "out"
                                 THEN [att EXCEPT ![record_id].check_out_time = <<today, now>>]
                                 ELSE att
                ELSE UNCHANGED <<att, entries, entry_seq>>
    /\ UNCHANGED <<userVars, att_seq, leaveVars, clockVars, holidayVars, sess>>

\* DELETE /attendance/{record_id}/entries/{entry_id}.
delete_attendance_entry(user, record_id, entry_id) ==
    /\ user \in DOMAIN employees
    /\ IF employees[user].role \notin {"admin", "manager"}
         THEN /\ resp' = Answer("delete_attendance_entry", 403)
              /\ UNCHANGED entries
         ELSE IF ~(entry_id \in DOMAIN entries
                   /\ entries[entry_id].attendance_record_id = record_id)
         THEN /\ resp' = Answer("delete_attendance_entry", 404)
              /\ UNCHANGED entries
         ELSE /\ entries' = Drop(entries, entry_id)
              /\ resp' = Answer("delete_attendance_entry", 200)
    /\ UNCHANGED <<userVars, att, att_seq, entry_seq, leaveVars, clockVars, holidayVars, sess>>

\* entries_count of a record: the number of its AttendanceEntry rows.
entries_count(record_id) ==
    Cardinality({e \in DOMAIN entries : entries[e].attendance_record_id = record_id})

\* The status code without the already-confirmed check.
confirm_attendance_code_again(user, record_id) ==
    IF record_id \notin DOMAIN att THEN 404
    ELSE LET rec == att[record_id]
         IN  IF rec.employee_id # user /\ employees[user].role # "admin" THEN 403
             ELSE IF entries_count(record_id) = 0 /\ rec.check_in_time = NoDatetime THEN 400
             ELSE 200

\* The status code of POST /attendance/{record_id}/confirm.
confirm_attendance_code(user, record_id) ==
    IF record_id \notin DOMAIN att THEN 404
    ELSE LET rec == att[record_id]
         IN  IF rec.employee_id # user /\ employees[user].role # "admin" THEN 403
             ELSE IF rec.is_confirmed THEN 400
             ELSE IF entries_count(record_id) = 0 /\ rec.check_in_time = NoDatetime THEN 400
             ELSE 200

\* POST /attendance/{record_id}/confirm; now is the time of day of
\* datetime.utcnow().
confirm_attendance(user, record_id, now) ==
    /\ user \in DOMAIN employees
    /\ LET code == confirm_attendance_code(user, record_id)
       IN  /\ resp' = Answer("confirm_attendance", code)
           /\ IF code = 200
                THEN att' = [att EXCEPT ![record_id] =
                       [@ EXCEPT !.is_confirmed = TRUE,
                                 !.confirmed_at = <<today, now>>,
                                 !.approval_status = "Pending_Manager"]]
                ELSE UNCHANGED att
    /\ UNCHANGED <<userVars, att_seq, entries, entry_seq, leaveVars, clockVars, holidayVars, sess>>

\* confirm_attendance up to its guards, run by session p: the lookup of the
\* record, the owner-or-admin check, the confirmed check and the count of
\* entries.  A guard that fails answers at once; otherwise the session holds
\* the record it read.
confirm_attendance_query(p, user, record_id) ==
    /\ user \in DOMAIN employees
    /\ sess[p].pc = "idle"
    /\ LET code == confirm_attendance_code(user, record_id)
       IN  IF code = 200
             THEN /\ sess' = [sess EXCEPT ![p] =
                       [pc |-> "confirming", user |-> user, record_id |-> record_id,
                        rec |-> att[record_id]]]
                  /\ UNCHANGED resp
             ELSE /\ resp' = Answer("confirm_attendance", code)
                  /\ UNCHANGED sess
    /\ UNCHANGED <<userVars, attVars, leaveVars, clockVars, holidayVars>>

\* The writes and the commit of session p: the UPDATE sets the columns whose
\* value differs from the one the session read (is_confirmed, confirmed_at,
\* and approval_status unless it read Pending_Manager).  A record deleted in
\* the meantime fails the transaction with status 500.
confirm_attendance_commit(p, now) ==
    /\ sess[p].pc = "confirming"
    /\ LET s == sess[p]
       IN  IF s.record_id \notin DOMAIN att
             THEN /\ resp' = Answer("confirm_attendance", 500)
                  /\ UNCHANGED att
             ELSE /\ att' = [att EXCEPT ![s.record_id] =
                       [@ EXCEPT !.is_confirmed = TRUE,
                                 !.confirmed_at = <<today, now>>,
                                 !.approval_status =
                                    IF s.rec.approval_status = "Pending_Manager"
                                      THEN @ ELSE "Pending_Manager"]]
                  /\ resp' = Answer("confirm_attendance", 200)
    /\ sess' = [sess EXCEPT ![p] = Idle]
    /\ UNCHANGED <<userVars, att_seq, entries, entry_seq, leaveVars, clockVars, holidayVars>>

\* ------------------------------------------------------------- listings
DefaultLimit == 100

\* The elements of a sequence.
Range(seq) == {seq[i] : i \in 1..Len(seq)}

\* A datetime as a sort key; NULL sorts lowest.
datetime_key(dt) == IF dt = NoDatetime THEN 0 ELSE dt[1] * (MaxTime + 1) + dt[2]

\* query.order_by(col.asc() | col.desc()): the ids of S in the order of
\* their keys, rows with equal keys in id order.
RECURSIVE order_by(_, _, _)
order_by(S, keys, order) ==
    IF S = {} THEN <<>>
    ELSE LET first == CHOOSE r \in S : \A q \in S :
                         \/ IF order = "asc" THEN keys[r] < keys[q] ELSE keys[r] > keys[q]
                         \/ (keys[r] = keys[q] /\ r <= q)
         IN  <<first>> \o order_by(S \ {first}, keys, order)

\* query.offset(skip).limit(limit).all().
offset_limit(rows, skip, limit) ==
    SubSeq(rows, skip + 1, IF skip + limit < Len(rows) THEN skip + limit ELSE Len(rows))

\* The ids of the employees whose manager_id is the user, and the user.
subordinate_ids(user) ==
    {e \in DOMAIN employees : employees[e].manager_id = user} \cup {user}

\* GET /attendance: the record ids of the response, in order.
get_all_attendance(user, skip, limit) ==
    LET query == IF employees[user].role = "employee"
                   THEN {r \in DOMAIN att : att[r].employee_id = user}
                 ELSE IF employees[user].role = "manager"
                   THEN {r \in DOMAIN att : att[r].employee_id \in subordinate_ids(user)}
                 ELSE DOMAIN att
    IN  offset_limit(order_by(query, [r \in query |-> att[r].date], "desc"), skip, limit)

\* The sort key of a record for a sort_by field of list_attendance.
sort_key(rec, sort_by) ==
    CASE sort_by = "date" -> rec.date
      [] sort_by = "check_in_time" -> datetime_key(rec.check_in_time)
      [] sort_by = "check_out_time" -> datetime_key(rec.check_out_time)

\* GET /attendance/list: the status code, the total and the record ids of
\* the items.  None stands for an absent employee_id, start_date, end_date;
\* "" for an absent sort_by.
list_attendance(user, skip, limit, employee_id, start_date, end_date, sort_by, order) ==
    IF order \notin {"asc", "desc"} THEN [code |-> 400, total |-> 0, items |-> <<>>]
    ELSE IF sort_by # "" /\ sort_by \notin {"date", "check_in_time", "check_out_time"}
      THEN [code |-> 400, total |-> 0, items |-> <<>>]
    ELSE LET scoped == IF employees[user].role = "employee"
                         THEN {r \in DOMAIN att : att[r].employee_id = user}
                       ELSE IF employee_id # None
                         THEN {r \in DOMAIN att : att[r].employee_id = employee_id}
                       ELSE DOMAIN att
             query == {r \in scoped :
                          /\ start_date # None => att[r].date >= start_date
                          /\ end_date # None => att[r].date <= end_date}
             rows == IF sort_by # ""
                       THEN order_by(query, [r \in query |-> sort_key(att[r], sort_by)], order)
                       ELSE order_by(query, [r \in query |-> att[r].date], "desc")
         IN  [code |-> 200, total |-> Cardinality(query),
              items |-> offset_limit(rows, skip, limit)]

\* ------------------------------------------------------------- leave
\* The days of a request with its last day left out.
days_requested_exclusive(start_date, end_date) == end_date - start_date

\* (lr.end_date - lr.start_date).days + 1, inclusive on both ends.
days_requested(start_date, end_date) == (end_date - start_date) + 1

\* The row a new LeaveRequest gets from create_leave and apply_leave_compat.
new_leave(user, leave_type_id, start_date, end_date) ==
    [employee_id |-> user,
     leave_type_id |-> leave_type_id,
     start_date |-> start_date,
     end_date |-> end_date,
     status |-> "pending",
     reviewed_by |-> None]

\* GET /leave/list with the manager's own requests left out.
get_leave_list_reports_only(user) ==
    LET query == IF employees[user].role = "employee"
                   THEN {l \in DOMAIN leaves : leaves[l].employee_id = user}
                 ELSE IF employees[user].role = "manager"
                   THEN {l \in DOMAIN leaves :
                            leaves[l].employee_id \in subordinate_ids(user) \ {user}}
                 ELSE DOMAIN leaves
    IN  order_by(query, [l \in query |-> l], "desc")

\* GET /leave/list: the request ids of the response, ordered by id descending.
get_leave_list(user) ==
    LET query == IF employees[user].role = "employee"
                   THEN {l \in DOMAIN leaves : leaves[l].employee_id = user}
                 ELSE IF employees[user].role = "manager"
                   THEN {l \in DOMAIN leaves : leaves[l].employee_id \in subordinate_ids(user)}
                 ELSE DOMAIN leaves
    IN  order_by(query, [l \in query |-> l], "desc")

\* GET /leave: the request ids of the response, ordered by applied_at
\* descending; applied_at is the time of the insert, so later ids are later.
get_all_leaves(user) ==
    LET leaves_ == IF employees[user].role = "admin"
                     THEN DOMAIN leaves
                   ELSE IF employees[user].role = "manager"
                     THEN {l \in DOMAIN leaves : leaves[l].employee_id \in subordinate_ids(user)}
                   ELSE {l \in DOMAIN leaves : leaves[l].employee_id = user}
    IN  order_by(leaves_, [l \in leaves_ |-> l], "desc")

\* POST /leave filing the request for the payload's employeeId when it has one.
create_leave_for_payload(user, employeeId, startDate, endDate) ==
    /\ user \in DOMAIN employees
    /\ IF startDate > endDate
         THEN /\ resp' = Answer("create_leave", 400)
              /\ UNCHANGED <<leaves, leave_seq>>
         ELSE /\ leave_seq < MaxLeave
              /\ leaves' = Put(leaves, leave_seq + 1,
                               new_leave(IF employeeId # None THEN employeeId ELSE user,
                                         1, startDate, endDate))
              /\ leave_seq' = leave_seq + 1
              /\ resp' = Answer("create_leave", 200)
    /\ UNCHANGED <<userVars, attVars, balances, bal_seq, clockVars, holidayVars, sess>>

\* POST /leave: the dates are the parsed startDate and endDate, the leave
\* type is the default 1; a payload employeeId is never read.
create_leave(user, employeeId, startDate, endDate) ==
    /\ user \in DOMAIN employees
    /\ IF startDate > endDate
         THEN /\ resp' = Answer("create_leave", 400)
              /\ UNCHANGED <<leaves, leave_seq>>
         ELSE /\ leave_seq < MaxLeave
              /\ leaves' = Put(leaves, leave_seq + 1, new_leave(user, 1, startDate, endDate))
              /\ leave_seq' = leave_seq + 1
              /\ resp' = Answer("create_leave", 200)
    /\ UNCHANGED <<userVars, attVars, balances, bal_seq, clockVars, holidayVars, sess>>

\* POST /leave/apply.
apply_leave_compat(user, leave_type_id, start_date, end_date) ==
    /\ user \in DOMAIN employees
    /\ IF start_date > end_date
         THEN /\ resp' = Answer("apply_leave_compat", 400)
              /\ UNCHANGED <<leaves, leave_seq>>
         ELSE /\ leave_seq < MaxLeave
              /\ leaves' = Put(leaves, leave_seq + 1,
                               new_leave(user, leave_type_id, start_date, end_date))
              /\ leave_seq' = leave_seq + 1
              /\ resp' = Answer("apply_leave_compat", 200)
    /\ UNCHANGED <<userVars, attVars, balances, bal_seq, clockVars, holidayVars, sess>>

\* PUT /leave/{leave_id}: a stub that answers 501 Not Implemented.
update_leave(user, leave_id) ==
    /\ user \in DOMAIN employees
    /\ resp' = Answer("update_leave", 501)
    /\ UNCHANGED <<userVars, attVars, leaveVars, clockVars, holidayVars, sess>>

\* The status code of DELETE /leave/{leave_id}.
delete_leave_code(user, leave_id) ==
    IF leave_id \notin DOMAIN leaves THEN 404
    ELSE IF leaves[leave_id].employee_id # user /\ employees[user].role = "employee" THEN 403
    ELSE IF leaves[leave_id].status # "pending" THEN 400
    ELSE 200

\* DELETE /leave/{leave_id}.
delete_leave(user, leave_id) ==
    /\ user \in DOMAIN employees
    /\ LET code == delete_leave_code(user, leave_id)
       IN  /\ resp' = Answer("delete_leave", code)
           /\ leaves' = IF code = 200 THEN Drop(leaves, leave_id) ELSE leaves
    /\ UNCHANGED <<userVars, attVars, leave_seq, balances, bal_seq, clockVars, holidayVars, sess>>

\* The status code without the pending check.
approve_leave_post_code_nopending(user, leave_id) ==
    IF employees[user].role \notin {"admin", "manager"} THEN 403
    ELSE IF leave_id \notin DOMAIN leaves THEN 404
    ELSE IF employees[user].role = "manager"
      THEN IF ~HasEmployee(leaves[leave_id].employee_id) THEN 404
           ELSE IF employees[leaves[leave_id].employee_id].manager_id # user THEN 403
           ELSE 200
    ELSE 200

\* The status code of POST /leave/{leave_id}/approve (leave_id is numeric).
approve_leave_post_code(user, leave_id) ==
    IF employees[user].role \notin {"admin", "manager"} THEN 403
    ELSE IF leave_id \notin DOMAIN leaves THEN 404
    ELSE IF leaves[leave_id].status # "pending" THEN 400
    ELSE IF employees[user].role = "manager"
      THEN IF ~HasEmployee(leaves[leave_id].employee_id) THEN 404
           ELSE IF employees[leaves[leave_id].employee_id].manager_id # user THEN 403
           ELSE 200
    ELSE 200

\* LeaveBalance rows with filter_by(employee_id=.., year=..).
BalancesOf(employee_id, year) ==
    {b \in DOMAIN balances :
        balances[b].employee_id = employee_id /\ balances[b].year = year}

\* The update with remaining_leaves computed from the old used_leaves.
charge_balance_stale(row, days_req) ==
    [row EXCEPT !.used_leaves = @ + days_req,
                !.remaining_leaves = row.total_leaves - row.used_leaves]

\* An existing balance row after an approval of days_req days:
\* used_leaves += days; remaining_leaves = total_leaves - used_leaves.
charge_balance(row, days_req) ==
    [row EXCEPT !.used_leaves = @ + days_req,
                !.remaining_leaves = row.total_leaves - (row.used_leaves + days_req)]

\* The balance row an approval creates when the employee has none this year.
first_balance(employee_id, year, days_req) ==
    [employee_id |-> employee_id,
     year |-> year,
     total_leaves |-> 17,
     used_leaves |-> days_req,
     remaining_leaves |-> 17 - days_req]

\* POST /leave/{leave_id}/approve with the balance charged and committed
\* as soon as the request is found, ahead of the pending and direct-report
\* checks.
approve_leave_post_charge_first(user, leave_id) ==
    /\ user \in DOMAIN employees
    /\ LET code == approve_leave_post_code(user, leave_id)
       IN  /\ resp' = Answer("approve_leave_post", code)
           /\ IF leave_id \in DOMAIN leaves /\ employees[user].role \in {"admin", "manager"}
                THEN LET lr == leaves[leave_id]
                         days_req == days_requested(lr.start_date, lr.end_date)
                         found == BalancesOf(lr.employee_id, current_year)
                     IN  /\ IF found # {}
                              THEN /\ \E b \in found :
                                        balances' = [balances EXCEPT
                                                       ![b] = charge_balance(@, days_req)]
                                   /\ UNCHANGED bal_seq
                              ELSE /\ balances' = Put(balances, bal_seq + 1,
                                          first_balance(lr.employee_id, current_year, days_req))
                                   /\ bal_seq' = bal_seq + 1
                         /\ leaves' = IF code = 200
                                        THEN [leaves EXCEPT ![leave_id] =
                                                [@ EXCEPT !.status = "approved",
                                                          !.reviewed_by = user]]
                                        ELSE leaves
                ELSE UNCHANGED <<leaves, balances, bal_seq>>
    /\ UNCHANGED <<userVars, attVars, leave_seq, clockVars, holidayVars, sess>>

\* POST /leave/{leave_id}/approve.
approve_leave_post(user, leave_id) ==
    /\ user \in DOMAIN employees
    /\ LET code == approve_leave_post_code(user, leave_id)
       IN  /\ resp' = Answer("approve_leave_post", code)
           /\ IF code = 200
                THEN LET lr == leaves[leave_id]
                         days_req == days_requested(lr.start_date, lr.end_date)
                         found == BalancesOf(lr.employee_id, current_year)
                     IN  /\ IF found # {}
                              THEN /\ \E b \in found :
                                        balances' = [balances EXCEPT
                                                       ![b] = charge_balance(@, days_req)]
                                   /\ UNCHANGED bal_seq
                              ELSE /\ balances' = Put(balances, bal_seq + 1,
                                          first_balance(lr.employee_id, current_year, days_req))
                                   /\ bal_seq' = bal_seq + 1
                         /\ leaves' = [leaves EXCEPT ![leave_id] =
                                         [@ EXCEPT !.status = "approved",
                                                   !.reviewed_by = user]]
                ELSE UNCHANGED <<leaves, balances, bal_seq>>
    /\ UNCHANGED <<userVars, attVars, leave_seq, clockVars, holidayVars, sess>>

\* LeaveBalance is keyed by (employee, calendar year): an insert is accepted
\* only when no committed row has the same pair.
uq_employee_year(employee_id, year) == BalancesOf(employee_id, year) = {}

\* approve_leave_post up to its guards, run by session p: the role check, the
\* lookup of the request, the pending check and the direct-report check.  A
\* guard that fails answers at once; otherwise the session holds the request
\* it read.
approve_leave_post_query(p, user, leave_id) ==
    /\ user \in DOMAIN employees
    /\ sess[p].pc = "idle"
    /\ LET code == approve_leave_post_code(user, leave_id)
       IN  IF code = 200
             THEN /\ sess' = [sess EXCEPT ![p] =
                       [pc |-> "checked", user |-> user, leave_id |-> leave_id,
                        employee_id |-> leaves[leave_id].employee_id,
                        days |-> days_requested(leaves[leave_id].start_date,
                                                leaves[leave_id].end_date)]]
                  /\ UNCHANGED resp
             ELSE /\ resp' = Answer("approve_leave_post", code)
                  /\ UNCHANGED sess
    /\ UNCHANGED <<userVars, attVars, leaveVars, clockVars, holidayVars>>

\* The balance lookup of session p: the row of (employee_id, this year) as
\* committed at this moment, or none.
approve_leave_post_balance(p) ==
    /\ sess[p].pc = "checked"
    /\ LET s == sess[p]
           found == BalancesOf(s.employee_id, current_year)
       IN  \E b \in IF found = {} THEN {None} ELSE found :
              sess' = [sess EXCEPT ![p] =
                 [pc |-> "charged", user |-> s.user, leave_id |-> s.leave_id,
                  employee_id |-> s.employee_id, days |-> s.days,
                  year |-> current_year, found |-> b,
                  row |-> IF b = None THEN None ELSE balances[b]]]
    /\ UNCHANGED <<userVars, attVars, leaveVars, clockVars, holidayVars, resp>>

\* The writes and the commit of session p: the balance row the session read,
\* charged from the values it read, or a new row; the request approved.  An
\* insert the store rejects, or a request deleted in the meantime, fails the
\* whole transaction with status 500.
approve_leave_post_commit(p) ==
    /\ sess[p].pc = "charged"
    /\ LET s == sess[p]
           reviewed == [leaves EXCEPT ![s.leave_id] =
                          [@ EXCEPT !.status = "approved", !.reviewed_by = s.user]]
       IN  IF s.leave_id \notin DOMAIN leaves
             THEN /\ resp' = Answer("approve_leave_post", 500)
                  /\ UNCHANGED <<leaves, balances, bal_seq>>
           ELSE IF s.found # None
             THEN /\ balances' = [balances EXCEPT ![s.found] = charge_balance(s.row, s.days)]
                  /\ leaves' = reviewed
                  /\ resp' = Answer("approve_leave_post", 200)
                  /\ UNCHANGED bal_seq
           ELSE IF uq_employee_year(s.employee_id, s.year)
             THEN /\ balances' = Put(balances, bal_seq + 1,
                                     first_balance(s.employee_id, s.year, s.days))
                  /\ bal_seq' = bal_seq + 1
                  /\ leaves' = reviewed
                  /\ resp' = Answer("approve_leave_post", 200)
           ELSE /\ resp' = Answer("approve_leave_post", 500)
                /\ UNCHANGED <<leaves, balances, bal_seq>>
    /\ sess' = [sess EXCEPT ![p] = Idle]
    /\ UNCHANGED <<userVars, attVars, leave_seq, clockVars, holidayVars>>

\* The status code of POST /leave/{leave_id}/reject.
reject_leave_post_code(user, leave_id) ==
    IF employees[user].role \notin {"admin", "manager"} THEN 403
    ELSE IF leave_id \notin DOMAIN leaves THEN 404
    ELSE IF /\ employees[user].role = "manager"
            /\ HasEmployee(leaves[leave_id].employee_id)
            /\ employees[leaves[leave_id].employee_id].manager_id # user
      THEN 403
    ELSE 200

\* POST /leave/{leave_id}/reject.
reject_leave_post(user, leave_id) ==
    /\ user \in DOMAIN employees
    /\ LET code == reject_leave_post_code(user, leave_id)
       IN  /\ resp' = Answer("reject_leave_post", code)
           /\ leaves' = IF code = 200
                          THEN [leaves EXCEPT ![leave_id] =
                                  [@ EXCEPT !.status = "rejected", !.reviewed_by = user]]
                          ELSE leaves
    /\ UNCHANGED <<userVars, attVars, leave_seq, balances, bal_seq, clockVars, holidayVars, sess>>

\* ------------------------------------------------------------- specification
\* The authenticated caller of a request is an employee row (get_current_user).
Callers == DOMAIN employees

\* Payload employee ids: every employee and one id that has no employee row.
OwnerInputs == DOMAIN employees \cup {emp_seq + 1}

RecIds == 1..MaxRec
EntryIds == 1..MaxEntry
ApprovalInputs == {"", "Approved"}
EntryTypes == {"in", "out", "break"}

\* Each handler with its inputs drawn from the given sets.
Mark(owners, clockIns, clockOuts, labels) ==
    \E u \in Callers, e \in owners, ci \in clockIns, co \in clockOuts, s \in labels :
       mark_attendance(u, e, ci, co, s)

Update(approvals, clockOuts, labels) ==
    \E u \in Callers, r \in RecIds, a \in approvals, co \in clockOuts, s \in labels :
       update_attendance(u, r, a, co, s)

Delete == \E u \in Callers, r \in RecIds : delete_attendance(u, r)

AddEntry(nows) ==
    \E u \in Callers, r \in RecIds, t \in EntryTypes, now \in nows :
       create_attendance_entry(u, r, t, now)

DeleteEntry == \E u \in Callers, r \in RecIds, e \in EntryIds : delete_attendance_entry(u, r, e)

Confirm(nows) == \E u \in Callers, r \in RecIds, now \in nows : confirm_attendance(u, r, now)

\* Records and days: clock-ins of the manager and the employee on successive
\* days, with the clock pinned to one time of day and no approval decisions.
Next ==
    \/ Mark({2, 3}, {1}, {None}, {"Present"})
    \/ Update({""}, {None, 1}, {""})
    \/ Delete
    \/ AddEntry({1})
    \/ DeleteEntry
    \/ Confirm({1})
    \/ Tick

Spec == Init /\ [][Next]_vars

\* The approval workflow of one day: records of every owner (admin, manager,
\* employee, unknown id), every approval decision, clock-outs at two times.
WorkflowNext ==
    \/ Mark(OwnerInputs, {1}, {None, 1}, {"Present"})
    \/ Update(ApprovalInputs, {None} \cup Times, {""})
    \/ Delete
    \/ Confirm({1})

SpecWorkflow == Init /\ [][WorkflowNext]_vars

\* Confirmation and the entry log of the employee's record: empty and
\* non-empty clock-ins, entries at every time of day, status labels.
ConfirmNext ==
    \/ Mark({3}, {None} \cup Times, {None}, Labels)
    \/ Update(ApprovalInputs, {None}, {"", "Late"})
    \/ Delete
    \/ AddEntry(Times)
    \/ DeleteEntry
    \/ Confirm(Times)

SpecConfirm == Init /\ [][ConfirmNext]_vars

\* The leave workflow: requests of every employee over spans of one and two
\* days, approvals and rejections by every caller, across year ends.
LeaveIds == 1..MaxLeave
LeaveDates == 1..MaxSpan

LeaveNext ==
    \/ /\ leave_seq < MaxRequest
       /\ \E u \in Callers, e \in {None, 3}, a \in {1, 2}, b \in {1, 2} :
             create_leave(u, e, a, b)
    \/ /\ leave_seq < MaxRequest
       /\ \E u \in Callers, a \in {1, 2} : apply_leave_compat(u, 1, a, 1)
    \/ \E u \in Callers, l \in LeaveIds : update_leave(u, l)
    \/ \E u \in Callers, l \in LeaveIds : delete_leave(u, l)
    \/ \E u \in Callers, l \in LeaveIds : approve_leave_post(u, l)
    \/ \E u \in Callers, l \in LeaveIds : reject_leave_post(u, l)
    \/ NewYear

SpecLeave == Init /\ [][LeaveNext]_vars

\* Leave balances: requests of the employee and the manager over every span
\* of 1..MaxSpan days, decided by every caller, across year ends.
BalanceNext ==
    \/ /\ leave_seq < MaxRequest
       /\ \E u \in {2, 3}, b \in LeaveDates : create_leave(u, None, 1, b)
    \/ \E u \in Callers, l \in LeaveIds : delete_leave(u, l)
    \/ \E u \in Callers, l \in LeaveIds : approve_leave_post(u, l)
    \/ \E u \in Callers, l \in LeaveIds : reject_leave_post(u, l)
    \/ NewYear

SpecBalance == Init /\ [][BalanceNext]_vars

\* Leave listings: the organisation grows by a user in any role reporting to
\* the manager, to the employee or to nobody, and every user files requests.
LeaveListNext ==
    \/ \E u \in {1, 3}, email \in {3, 4}, role \in {"EMPLOYEE", "MANAGER", "ADMIN"},
          reportingTo \in {None, 2, 3} : create_user(u, email, role, reportingTo)
    \/ leave_seq < MaxRequest /\ \E u \in Callers : create_leave(u, None, 1, 1)
    \/ \E u \in Callers, l \in LeaveIds : delete_leave(u, l)

SpecLeaveList == Init /\ [][LeaveListNext]_vars

\* Every handler that writes, on a small organisation: one more user, the
\* employee's record of the day with its entries, the employee's first
\* request and one holiday.
HolidayIds == 1..MaxHoliday

ErrorsNext ==
    \/ \E u \in {1, 3}, email \in {3, 4} : create_user(u, email, "EMPLOYEE", 2)
    \/ \E u \in {1, 3}, id \in {3, 5}, email \in {None, 2} : update_user(u, id, email)
    \/ \E u \in {1, 3}, id \in {4, 5} : delete_user(u, id)
    \/ Mark({3}, {1}, {None}, {"Present"})
    \/ Update(ApprovalInputs, {None}, {""})
    \/ Delete
    \/ AddEntry({1})
    \/ DeleteEntry
    \/ Confirm({1})
    \/ leave_seq = 0 /\ \E a \in {1, 2} : create_leave(3, None, a, 1)
    \/ leave_seq = 0 /\ \E a \in {1, 2} : apply_leave_compat(3, 1, a, 1)
    \/ \E u \in {1, 3}, l \in {1, 2} : update_leave(u, l)
    \/ \E u \in {1, 3}, l \in {1, 2} : delete_leave(u, l)
    \/ \E u \in {1, 3}, l \in {1, 2} : approve_leave_post(u, l)
    \/ \E u \in {1, 3}, l \in {1, 2} : reject_leave_post(u, l)
    \/ \E u \in {1, 3} : create_holiday(u, 1, 1)
    \/ \E u \in {1, 3} : create_holiday_compat(u, 1, 1)
    \/ \E u \in {1, 3}, h \in HolidayIds : update_holiday(u, h)
    \/ \E u \in {1, 3}, h \in HolidayIds : delete_holiday(u, h)

SpecErrors == Init /\ [][ErrorsNext]_vars

\* User management: users of every role created by every caller with every
\* reportingTo (none, an existing id, the id the new row gets, an id that has
\* no row), e-mails changed and users deleted by every caller.
Emails == 1..MaxEmp
ReportingInputs == {None} \cup 1..(MaxEmp + 1)

UsersNext ==
    \/ \E u \in Callers, email \in Emails, role \in {"EMPLOYEE", "MANAGER", "ADMIN"},
          reportingTo \in ReportingInputs : create_user(u, email, role, reportingTo)
    \/ \E u \in Callers, id \in EmpIds, email \in {None} \cup Emails : update_user(u, id, email)
    \/ \E u \in Callers, id \in EmpIds : delete_user(u, id)

SpecUsers == Init /\ [][UsersNext]_vars

\* A manager who may be their own manager: the admin creates a manager with
\* every reportingTo; the new manager's record is marked, confirmed and
\* decided; requests are filed and approved by everyone but the admin.
SelfNext ==
    \/ \E reportingTo \in ReportingInputs : create_user(1, 4, "MANAGER", reportingTo)
    \/ Mark({4}, {1}, {None}, {"Present"})
    \/ Update(ApprovalInputs, {None}, {""})
    \/ Confirm({1})
    \/ /\ leave_seq < MaxRequest
       /\ \E u \in Callers \ {1} : create_leave(u, None, 1, 1)
    \/ \E u \in Callers \ {1}, l \in LeaveIds : approve_leave_post(u, l)

SpecSelf == Init /\ [][SelfNext]_vars

\* Clock operations on the employee's record in every stage of the workflow:
\* clock-ins at both times of day, clock-outs through mark (late), update
\* and the entry log (early), with the confirmations and approval decisions
\* that set the stages.
ClockNext ==
    \/ Mark({3}, Times, {None, 2}, {"Present"})
    \/ Update(ApprovalInputs, {None, 1}, {"", "Late"})
    \/ AddEntry({1})
    \/ DeleteEntry
    \/ Confirm({1})

SpecClock == Init /\ [][ClockNext]_vars

\* The leave workflow within one calendar year: requests of one day and of
\* LongSpan days, more than a year's 17 days of leave, decided and deleted by
\* every caller.
YearNext ==
    \/ /\ leave_seq < MaxRequest
       /\ \E u \in {2, 3}, b \in {1, LongSpan} : create_leave(u, None, 1, b)
    \/ \E u \in Callers, l \in LeaveIds : delete_leave(u, l)
    \/ \E u \in Callers, l \in LeaveIds : approve_leave_post(u, l)
    \/ \E u \in Callers, l \in LeaveIds : reject_leave_post(u, l)

SpecYear == Init /\ [][YearNext]_vars

\* Concurrent approvals of different requests of the employee: the sessions
\* run approve_leave_post statement by statement against the shared store,
\* never two of them on the same request.
OtherRequest(p, l) ==
    \A q \in Sessions \ {p} : IF sess[q].pc = "idle" THEN TRUE ELSE sess[q].leave_id # l

ApproveRaceNext ==
    \/ \E b \in {1, 2} : create_leave(3, None, 1, b)
    \/ \E p \in Sessions, u \in {1, 2}, l \in LeaveIds :
          OtherRequest(p, l) /\ approve_leave_post_query(p, u, l)
    \/ \E p \in Sessions : approve_leave_post_balance(p)
    \/ \E p \in Sessions : approve_leave_post_commit(p)

SpecApproveRace == Init /\ [][ApproveRaceNext]_vars

\* Concurrent decisions on one target: the sessions run approve_leave_post
\* and confirm_attendance statement by statement against the shared store,
\* on the requests and the record of the employee.
GuardRaceNext ==
    \/ leave_seq < MaxRequest /\ create_leave(3, None, 1, 2)
    \/ mark_attendance(3, 3, 1, None, "Present")
    \/ \E p \in Sessions, u \in {1, 2}, l \in LeaveIds : approve_leave_post_query(p, u, l)
    \/ \E p \in Sessions : approve_leave_post_balance(p)
    \/ \E p \in Sessions : approve_leave_post_commit(p)
    \/ \E p \in Sessions, u \in {1, 3}, r \in RecIds : confirm_attendance_query(p, u, r)
    \/ \E p \in Sessions : confirm_attendance_commit(p, 1)

SpecGuardRace == Init /\ [][GuardRaceNext]_vars

\* Concurrent clock-ins: the sessions run mark_attendance statement by
\* statement against the shared store.
MarkRaceNext ==
    \/ \E p \in Sessions, u \in Callers, e \in {2, 3}, co \in {None, 1} :
          mark_attendance_query(p, u, e, 1, co, "Present")
    \/ \E p \in Sessions : mark_attendance_commit(p)
    \/ Tick

SpecMarkRace == Init /\ [][MarkRaceNext]_vars

\* ------------------------------------------------------------- claims
\* C1: after any sequence of mark_attendance, update_attendance,
\* create_attendance_entry, confirm_attendance and delete_attendance calls
\* executed one at a time, there is at most one AttendanceRecord for every
\* (employee, calendar date) pair.
C1_OneRecordPerEmployeeDate ==
    \A r1 \in DOMAIN att, r2 \in DOMAIN att :
       (att[r1].employee_id = att[r2].employee_id /\ att[r1].date = att[r2].date)
          => r1 = r2

\* A clock-in has just been answered and one employee has records on two days.
C1_Witness ==
    /\ resp = Answer("mark_attendance", 200)
    /\ \E r1 \in DOMAIN att, r2 \in DOMAIN att :
          /\ att[r1].employee_id = att[r2].employee_id
          /\ att[r1].date < att[r2].date

\* C2: when two mark_attendance requests for the same employee and day
\* interleave (each reads 'no record for today' before either writes), at
\* most one AttendanceRecord for that (employee, date) exists afterwards.
C2_NoDuplicateUnderRace ==
    \A e \in OwnerInputs, d \in Days :
       Cardinality({r \in DOMAIN att : att[r].employee_id = e /\ att[r].date = d}) <= 1

\* Both sessions had read 'no record' and the later insert was rejected.
C2_Witness ==
    /\ resp = Answer("mark_attendance", 500)
    /\ \A p \in Sessions : sess[p].pc = "idle"
    /\ att # <<>>

\* C3: once a record's approval_status is Approved, no later operation by
\* any caller changes it to another value.
C3_ApprovedIsTerminal ==
    [][\A r \in DOMAIN att :
          (att[r].approval_status = "Approved" /\ r \in DOMAIN att')
             => att'[r].approval_status = "Approved"]_vars

\* The approval_status of record r differs before and after the step.
ApprovalChanged(r) == att'[r].approval_status # att[r].approval_status

ClockTouched(r) ==
    \/ r \notin DOMAIN att
    \/ att'[r].check_in_time # att[r].check_in_time
    \/ att'[r].check_out_time # att[r].check_out_time

\* Every record whose clock times the step creates or changes belongs to u.
OnlyOwnClock(u) ==
    \A r \in DOMAIN att' : ClockTouched(r) => att'[r].employee_id = u

\* C7: the check_in_time and check_out_time of a record are created or
\* changed only by an operation whose caller is the record's owner
\* (mark_attendance with a payload employeeId, update_attendance with
\* clockOut, create_attendance_entry of type 'out').
C7_OwnerOnlyClock ==
    [][\A u \in Callers :
          /\ \A e \in OwnerInputs, ci \in {None} \cup Times, co \in {None} \cup Times,
                s \in Labels :
                mark_attendance(u, e, ci, co, s) => OnlyOwnClock(u)
          /\ \A r \in RecIds, a \in ApprovalInputs, co \in {None} \cup Times,
                s \in Labels \cup {""} :
                update_attendance(u, r, a, co, s) => OnlyOwnClock(u)
          /\ \A r \in RecIds, t \in EntryTypes, now \in Times :
                create_attendance_entry(u, r, t, now) => OnlyOwnClock(u)]_vars

\* C5: confirm_attendance succeeds only if the caller is the record owner or
\* an admin, the record's is_confirmed is false, and the record has at least
\* one entry or a check-in time; a second confirm on an already-confirmed
\* record fails with Conflict (400), and every failed confirm leaves the
\* records (is_confirmed, confirmed_at, approval_status) unchanged.
C5_ConfirmGuard ==
    [][\A u \in Callers, r \in RecIds, now \in Times :
          confirm_attendance(u, r, now) =>
             LET allowed == /\ r \in DOMAIN att
                            /\ (att[r].employee_id = u \/ employees[u].role = "admin")
                 has_log == \/ \E e \in DOMAIN entries : entries[e].attendance_record_id = r
                            \/ att[r].check_in_time # NoDatetime
             IN  /\ resp'.code = 200 =>
                       (allowed /\ ~att[r].is_confirmed /\ has_log /\ att'[r].is_confirmed)
                 /\ (allowed /\ att[r].is_confirmed) => resp'.code = 400
                 /\ resp'.code # 200 => att' = att]_vars

\* The only record is confirmed and a further confirm was answered Conflict.
C5_Witness ==
    /\ resp = Answer("confirm_attendance", 400)
    /\ Cardinality(DOMAIN att) = 1
    /\ \A r \in DOMAIN att : att[r].is_confirmed

\* The stages of a record of employee e in the approval scenario.
Stage(rec, e, approval, confirmed) ==
    /\ rec.employee_id = e
    /\ rec.approval_status = approval
    /\ rec.is_confirmed = confirmed

\* C6: employee E (role employee, manager_id = M) marks attendance, E
\* confirms, manager M calls update_attendance with an approvalStatus, admin A
\* calls update_attendance with an approvalStatus: the record passes through
\* Pending_Manager, Pending_Manager, Pending_Admin, Approved in that order
\* and ends Approved with is_confirmed = true.  Each call, made in the state
\* the previous one leaves, leaves the next stage.
C6_ApprovalScenario ==
    [][\A E \in Callers, M \in Callers, A \in Callers :
          (/\ employees[E].role = "employee" /\ employees[E].manager_id = M
           /\ employees[M].role = "manager" /\ employees[A].role = "admin") =>
             /\ \A ci \in Times, co \in {None} \cup Times, s \in Labels :
                   (/\ \A r \in DOMAIN att : ~(att[r].employee_id = E /\ att[r].date = today)
                    /\ mark_attendance(E, E, ci, co, s))
                      => \E r \in DOMAIN att' \ DOMAIN att :
                            /\ Stage(att'[r], E, "Pending_Manager", FALSE)
                            /\ att'[r].check_in_time # NoDatetime
             /\ \A r \in DOMAIN att, now \in Times :
                   (/\ Stage(att[r], E, "Pending_Manager", FALSE)
                    /\ att[r].check_in_time # NoDatetime
                    /\ confirm_attendance(E, r, now))
                      => Stage(att'[r], E, "Pending_Manager", TRUE)
             /\ \A r \in DOMAIN att, a \in ApprovalInputs \ {""}, co \in {None} \cup Times,
                   s \in Labels \cup {""} :
                   /\ (Stage(att[r], E, "Pending_Manager", TRUE)
                         /\ update_attendance(M, r, a, co, s))
                         => Stage(att'[r], E, "Pending_Admin", TRUE)
                   /\ (Stage(att[r], E, "Pending_Admin", TRUE)
                         /\ update_attendance(A, r, a, co, s))
                         => Stage(att'[r], E, "Approved", TRUE)]_vars

\* The record of the seeded employee has gone through confirmation and is
\* Approved after an update_attendance call.
C6_Witness ==
    /\ resp = Answer("update_attendance", 200)
    /\ \E r \in DOMAIN att : Stage(att[r], 3, "Approved", TRUE)

\* The records a caller may see: an employee their own, a manager their own
\* and those of employees whose manager_id is the manager, an admin all.
VisibleScope(u) ==
    CASE employees[u].role = "employee" -> {r \in DOMAIN att : att[r].employee_id = u}
      [] employees[u].role = "manager" ->
            {r \in DOMAIN att :
                \/ att[r].employee_id = u
                \/ /\ HasEmployee(att[r].employee_id)
                   /\ employees[att[r].employee_id].manager_id = u}
      [] employees[u].role = "admin" -> DOMAIN att

\* C8: every attendance listing (get_all_attendance and list_attendance, for
\* any filter and sort arguments) returns to an employee only records they
\* own, to a manager exactly the records owned by themselves or by their
\* direct reports, and to an admin all records.
C8_ListingScope ==
    \A u \in Callers :
       /\ \A skip \in {0, 1}, limit \in {1, DefaultLimit} :
             Range(get_all_attendance(u, skip, limit)) \subseteq VisibleScope(u)
       /\ Range(get_all_attendance(u, 0, DefaultLimit)) = VisibleScope(u)
       /\ \A skip \in {0, 1}, limit \in {1, DefaultLimit}, e \in {None} \cup OwnerInputs,
             sd \in {None} \cup Days, ed \in {None} \cup Days,
             sb \in {"", "date", "check_in_time", "check_out_time"}, o \in {"asc", "desc"} :
             Range(list_attendance(u, skip, limit, e, sd, ed, sb, o).items)
                \subseteq VisibleScope(u)
       /\ Range(list_attendance(u, 0, DefaultLimit, None, None, None, "", "desc").items)
             = VisibleScope(u)

\* C9: approve_leave_post sets a request to approved only if the request is
\* pending and the caller is an admin or a manager whose id equals the
\* requester's manager_id; for an admin or manager caller a non-pending
\* request yields Conflict (400), for a manager a pending request of an
\* employee with another manager_id yields Forbidden, and every failed call
\* leaves the request and every LeaveBalance unchanged.
C9_ApproveGuard ==
    [][\A u \in Callers, l \in LeaveIds :
          approve_leave_post(u, l) =>
             LET role == employees[u].role
                 known == l \in DOMAIN leaves
                 owner == leaves[l].employee_id
                 approver == \/ role = "admin"
                             \/ /\ role = "manager"
                                /\ HasEmployee(owner)
                                /\ employees[owner].manager_id = u
             IN  /\ resp'.code = 200 =>
                       /\ known
                       /\ leaves[l].status = "pending"
                       /\ approver
                       /\ leaves'[l].status = "approved"
                 /\ (known /\ leaves[l].status # "approved" /\ leaves'[l].status = "approved")
                       => resp'.code = 200
                 /\ (known /\ role \in {"admin", "manager"} /\ leaves[l].status # "pending")
                       => resp'.code = 400
                 /\ (known /\ role = "manager" /\ leaves[l].status = "pending"
                       /\ HasEmployee(owner) /\ employees[owner].manager_id # u)
                       => resp'.code = 403
                 /\ resp'.code # 200 => (leaves' = leaves /\ balances' = balances)]_vars

\* A request is approved and a further approval of a request was answered
\* Conflict.
C9_Witness ==
    /\ resp = Answer("approve_leave_post", 400)
    /\ \E l \in DOMAIN leaves : leaves[l].status = "approved"

\* C10: after any sequence of leave approvals, rejections, creations and
\* deletions, every LeaveBalance row has
\* remaining_leaves = total_leaves - used_leaves.
C10_RemainingIsTotalMinusUsed ==
    \A b \in DOMAIN balances :
       balances[b].remaining_leaves = balances[b].total_leaves - balances[b].used_leaves

\* An approval has charged an existing balance row: no single request spans
\* more than MaxSpan days.
C10_Witness ==
    /\ resp = Answer("approve_leave_post", 200)
    /\ \E b \in DOMAIN balances : balances[b].used_leaves > MaxSpan

\* C11: a successful approve_leave_post of a request with dates start..end
\* increases the requester's used_leaves (the balance row of the current
\* year) by exactly (end - start) + 1; when the requester has no row it
\* creates one with total 17, used = days, remaining = 17 - days, so a 3-day
\* request against an untouched balance ends with used 3, remaining 14.
C11_ApproveChargesDays ==
    [][\A u \in Callers, l \in LeaveIds :
          (approve_leave_post(u, l) /\ resp'.code = 200) =>
             LET lr == leaves[l]
                 days == (lr.end_date - lr.start_date) + 1
                 found == BalancesOf(lr.employee_id, current_year)
                 after == BalancesOf(lr.employee_id, current_year)'
             IN  /\ \A b \in DOMAIN balances \ found : balances'[b] = balances[b]
                 /\ IF found = {}
                      THEN \E b \in after :
                              /\ after = {b}
                              /\ b \notin DOMAIN balances
                              /\ balances'[b].total_leaves = 17
                              /\ balances'[b].used_leaves = days
                              /\ balances'[b].remaining_leaves = 17 - days
                              /\ (days = 3 => balances'[b].remaining_leaves = 14)
                      ELSE /\ after = found
                           /\ \E b \in found :
                                 /\ balances'[b].used_leaves = balances[b].used_leaves + days
                                 /\ balances'[b].total_leaves = balances[b].total_leaves
                                 /\ \A c \in found \ {b} : balances'[c] = balances[c]]_vars

\* A 3-day request has been approved for an employee without a balance row:
\* the new row has used 3 and remaining 14.
C11_Witness ==
    /\ resp = Answer("approve_leave_post", 200)
    /\ \E l \in DOMAIN leaves, b \in DOMAIN balances :
          /\ leaves[l].status = "approved"
          /\ leaves[l].end_date - leaves[l].start_date = 2
          /\ balances[b].employee_id = leaves[l].employee_id
          /\ balances[b].total_leaves = 17
          /\ balances[b].used_leaves = 3
          /\ balances[b].remaining_leaves = 14

RECURSIVE SumDays(_)
\* The days of the requests in S, added up.
SumDays(S) ==
    IF S = {} THEN 0
    ELSE LET l == CHOOSE x \in S : TRUE
         IN  days_requested(leaves[l].start_date, leaves[l].end_date)
                + SumDays(S \ {l})

\* The approved requests of an employee.
ApprovedOf(e) == {l \in DOMAIN leaves : leaves[l].employee_id = e /\ leaves[l].status = "approved"}

\* C12: when approvals of different pending requests of the same employee
\* interleave, then once they have finished exactly one balance row exists
\* for the employee and year and its used_leaves is the days of all the
\* approved requests added up: no update is lost.
C12_NoLostUpdate ==
    (\A p \in Sessions : sess[p].pc = "idle") =>
       \A e \in Callers :
          ApprovedOf(e) # {} =>
             \E b \in DOMAIN balances :
                /\ BalancesOf(e, current_year) = {b}
                /\ balances[b].used_leaves = SumDays(ApprovedOf(e))

\* C13: transition guards are checked atomically with the write: when two
\* approve_leave_post calls on the same pending request, or two
\* confirm_attendance calls on the same unconfirmed record, interleave,
\* exactly one succeeds and the transition is applied once.  A call that
\* answers success therefore is the one that moves the request out of pending
\* (charging its days once) or the record out of unconfirmed.
C13_GuardAtomicWithWrite ==
    [][\A p \in Sessions :
          /\ (approve_leave_post_commit(p) /\ resp'.code = 200) =>
                /\ leaves[sess[p].leave_id].status = "pending"
                /\ \A e \in Callers :
                      \A b \in BalancesOf(e, current_year)' :
                         balances'[b].used_leaves <= SumDays(ApprovedOf(e))'
          /\ (confirm_attendance_commit(p, 1) /\ resp'.code = 200) =>
                ~att[sess[p].record_id].is_confirmed]_vars

\* C14: approved and rejected are terminal states of a leave request: once a
\* request's status is approved or rejected, no later approve_leave_post,
\* reject_leave_post, update_leave or delete_leave call changes its status.
C14_DecidedIsTerminal ==
    [][\A l \in DOMAIN leaves :
          leaves[l].status \in {"approved", "rejected"} =>
             /\ l \in DOMAIN leaves'
             /\ leaves'[l].status = leaves[l].status]_vars

\* C15: delete_leave removes a leave request only when the caller is the
\* request's owner or an admin and the request's status is pending; for every
\* other caller (including a manager who does not own it) or any non-pending
\* status the request remains.
C15_DeleteOwnerOrAdminPending ==
    [][\A u \in Callers, l \in DOMAIN leaves :
          delete_leave(u, l) =>
             LET allowed == /\ leaves[l].employee_id = u \/ employees[u].role = "admin"
                            /\ leaves[l].status = "pending"
             IN  /\ l \notin DOMAIN leaves' => allowed
                 /\ ~allowed => (leaves' = leaves /\ resp'.code # 200)]_vars

\* The step files a new pending request of caller u with dates a..b, or, when
\* a > b, answers a validation error (400) and creates nothing.
Filed(u, a, b) ==
    IF a > b
      THEN /\ resp'.code = 400
           /\ leaves' = leaves
           /\ leave_seq' = leave_seq
      ELSE /\ resp'.code = 200
           /\ DOMAIN leaves' = DOMAIN leaves \cup {leave_seq'}
           /\ leave_seq' \notin DOMAIN leaves
           /\ \A l \in DOMAIN leaves : leaves'[l] = leaves[l]
           /\ leaves'[leave_seq'].employee_id = u
           /\ leaves'[leave_seq'].status = "pending"
           /\ leaves'[leave_seq'].start_date = a
           /\ leaves'[leave_seq'].end_date = b
           /\ leaves'[leave_seq'].start_date <= leaves'[leave_seq'].end_date

\* C16: every leave request created by create_leave or apply_leave_compat has
\* employee_id equal to the authenticated caller (a payload employeeId is
\* ignored), status pending and start_date <= end_date; a request with
\* start_date > end_date fails with a validation error and creates nothing.
C16_RequesterIsCaller ==
    [][/\ resp'.op = "create_leave" =>
             \A u \in Callers, e \in {None} \cup Callers, a \in LeaveDates, b \in LeaveDates :
                create_leave(u, e, a, b) => Filed(u, a, b)
       /\ resp'.op = "apply_leave_compat" =>
             \A u \in Callers, a \in LeaveDates, b \in LeaveDates :
                apply_leave_compat(u, 1, a, b) => Filed(u, a, b)]_vars

\* The manager's POST /leave has filed a request of the manager, while every
\* payload names employee 3 or nobody.
C16_Witness ==
    /\ resp = Answer("create_leave", 200)
    /\ leave_seq \in DOMAIN leaves
    /\ leaves[leave_seq].employee_id = 2
    /\ leaves[leave_seq].status = "pending"

\* The requests a user may see: an employee their own, a manager their own
\* and those of the employees whose manager_id is the manager, an admin all.
LeaveScope(u) ==
    CASE employees[u].role = "employee" -> {l \in DOMAIN leaves : leaves[l].employee_id = u}
      [] employees[u].role = "manager" ->
            {l \in DOMAIN leaves :
                \/ leaves[l].employee_id = u
                \/ /\ HasEmployee(leaves[l].employee_id)
                   /\ employees[leaves[l].employee_id].manager_id = u}
      [] employees[u].role = "admin" -> DOMAIN leaves

store == <<employees, emp_seq, att, att_seq, entries, entry_seq,
           leaves, leave_seq, balances, bal_seq, holidays, holiday_seq>>

\* C18: any attendance, entry, leave, user or holiday operation that ends
\* with a Validation, Forbidden, Conflict or NotFound outcome (status 400,
\* 403, 404 or 422) leaves the whole stored state (employees, attendance
\* records, entries, leave requests, leave balances, holidays) exactly as it
\* was before the call.
C18_FailureChangesNothing ==
    [][resp'.code \in {400, 403, 404, 422} => store' = store]_vars

\* The employee's approval was answered Forbidden while a user, a record
\* with an entry, a decided request with its balance and a holiday are stored.
C18_Witness ==
    /\ resp = Answer("approve_leave_post", 403)
    /\ emp_seq > 3
    /\ entries # <<>>
    /\ balances # <<>>
    /\ holidays # <<>>

\* C19: confirmation is a prerequisite to manager verification: a step
\* moves a record from Pending_Manager to Pending_Admin only if the record's
\* is_confirmed is true, so the confirm of a record precedes its manager
\* verification.
C19_ConfirmBeforeVerify ==
    [][\A r \in DOMAIN att :
          (/\ r \in DOMAIN att'
           /\ att[r].approval_status = "Pending_Manager"
           /\ att'[r].approval_status = "Pending_Admin")
             => att[r].is_confirmed]_vars

\* Record r is Approved after the step and was not before it.
BecomesApproved(r) ==
    /\ r \in DOMAIN att'
    /\ att'[r].approval_status = "Approved"
    /\ r \in DOMAIN att => att[r].approval_status # "Approved"

\* C20: only an admin can set a record's approval_status to Approved: a
\* record becomes Approved only in an admin's update_attendance with an
\* approvalStatus; such a call on an existing record succeeds and leaves
\* Approved whatever the current approval_status and is_confirmed are; no
\* call by an employee or manager produces Approved.  The calls carry no
\* status label, which the approval does not depend on.
C20_OnlyAdminApproves ==
    [][/\ \A r \in RecIds :
             BecomesApproved(r) =>
                /\ resp' = Answer("update_attendance", 200)
                /\ \E u \in Callers, a \in ApprovalInputs \ {""},
                      co \in {None} \cup Times :
                      /\ employees[u].role = "admin"
                      /\ update_attendance(u, r, a, co, "")
       /\ resp'.op = "update_attendance" =>
             \A u \in Callers, r \in DOMAIN att, a \in ApprovalInputs,
                co \in {None} \cup Times :
                update_attendance(u, r, a, co, "") =>
                   IF employees[u].role = "admin"
                     THEN a # "" => /\ resp'.code = 200
                                    /\ att'[r].approval_status = "Approved"
                     ELSE \A q \in RecIds : ~BecomesApproved(q)
       /\ resp'.op \in {"mark_attendance", "confirm_attendance", "delete_attendance"} =>
             \A q \in RecIds : ~BecomesApproved(q)]_vars

\* An admin's update left a record Approved that was never confirmed, and
\* another, confirmed one Approved as well.
C20_Witness ==
    /\ resp = Answer("update_attendance", 200)
    /\ \E r \in DOMAIN att, q \in DOMAIN att :
          /\ att[r].approval_status = "Approved" /\ ~att[r].is_confirmed
          /\ att[q].approval_status = "Approved" /\ att[q].is_confirmed

\* C21: employee e-mails stay unique: after any sequence of create_user,
\* update_user and delete_user calls no two Employee rows have the same
\* email.
C21_EmailsUnique ==
    \A a \in DOMAIN employees, b \in DOMAIN employees :
       a # b => employees[a].email # employees[b].email

\* An update to the e-mail of another employee was refused after a fourth
\* user had been created and an e-mail had been changed to a free one.
C21_Witness ==
    /\ resp = Answer("update_user", 500)
    /\ 4 \in DOMAIN employees
    /\ \E e \in DOMAIN employees : e <= 3 /\ employees[e].email # seed_data[e].email

\* The managers met by following manager_id from employee e for at most n
\* steps, stopping at None and at ids that have no row.
RECURSIVE ManagersAbove(_, _)
ManagersAbove(e, n) ==
    IF n = 0 \/ e \notin DOMAIN employees \/ employees[e].manager_id = None
      THEN {}
      ELSE {employees[e].manager_id} \cup ManagersAbove(employees[e].manager_id, n - 1)

\* C22: the manager reference graph over employees is acyclic after seeding
\* and after any sequence of create_user, update_user and delete_user calls:
\* following manager_id from any employee never returns to that employee.
C22_ManagerGraphAcyclic ==
    \A e \in DOMAIN employees : e \notin ManagersAbove(e, MaxEmp)

\* C28: no self-approval: a manager-role caller's update_attendance never
\* moves the caller's own record from Pending_Manager to Pending_Admin, and
\* a manager-role caller's approve_leave_post never approves a request the
\* caller created, whatever the organisation looks like.
C28_NoSelfApproval ==
    [][/\ resp'.op = "update_attendance" =>
             \A u \in Callers, r \in DOMAIN att, a \in ApprovalInputs :
                (/\ employees[u].role = "manager"
                 /\ att[r].employee_id = u
                 /\ update_attendance(u, r, a, None, ""))
                   => ~(/\ att[r].approval_status = "Pending_Manager"
                        /\ att'[r].approval_status = "Pending_Admin")
       /\ resp'.op = "approve_leave_post" =>
             \A u \in Callers, l \in DOMAIN leaves :
                (/\ employees[u].role = "manager"
                 /\ leaves[l].employee_id = u
                 /\ approve_leave_post(u, l))
                   => leaves'[l].status # "approved"]_vars

\* The step leaves the role and the manager_id of every employee as they were.
RolesKept ==
    \A e \in DOMAIN employees :
       /\ e \in DOMAIN employees'
       /\ employees'[e].role = employees[e].role
       /\ employees'[e].manager_id = employees[e].manager_id

\* The step is a refusal: Forbidden, and nothing written.
Refused == resp'.code = 403 /\ store' = store

\* C29: no privilege escalation through user management: create_user and
\* delete_user take effect only for admin callers, update_user takes effect
\* only for an admin or the user themselves, and update_user never changes
\* any employee's role or manager_id, so a non-admin caller never changes
\* any employee's role.  Stated by contraposition: a step that is not a
\* refusal (Forbidden, nothing written) is no call of such a caller.
C29_NoEscalation ==
    [][/\ (resp'.op = "create_user" /\ ~Refused) =>
             \A u \in Callers, email \in Emails, role \in {"EMPLOYEE", "MANAGER", "ADMIN"},
                reportingTo \in ReportingInputs :
                employees[u].role # "admin" => ~create_user(u, email, role, reportingTo)
       /\ (resp'.op = "delete_user" /\ ~Refused) =>
             \A u \in Callers, id \in EmpIds :
                employees[u].role # "admin" => ~delete_user(u, id)
       /\ (resp'.op = "update_user" /\ ~Refused) =>
             \A u \in Callers, id \in EmpIds, email \in {None} \cup Emails :
                (employees[u].role # "admin" /\ u # id) => ~update_user(u, id, email)
       /\ resp'.op = "update_user" => RolesKept]_vars

\* With no admin left among the employees, a user's update of their own
\* e-mail succeeded.
C29_Witness ==
    /\ resp = Answer("update_user", 200)
    /\ \A e \in DOMAIN employees : employees[e].role # "admin"
    /\ \E e \in DOMAIN employees : e <= 3 /\ employees[e].email = 4

\* C23: when mark_attendance creates a record, its initial approval_status
\* is Pending_Admin if and only if the record owner's role is manager, and
\* Pending_Manager otherwise (employee or admin owner, or an employee id
\* that has no row).
C23_InitialApprovalStatus ==
    [][resp'.op = "mark_attendance" =>
          \A r \in DOMAIN att' \ DOMAIN att :
             LET owner == att'[r].employee_id
                 managerOwner == owner \in DOMAIN employees /\ employees[owner].role = "manager"
             IN  /\ managerOwner => att'[r].approval_status = "Pending_Admin"
                 /\ ~managerOwner => att'[r].approval_status = "Pending_Manager"
                 /\ ~att'[r].is_confirmed]_vars

\* mark_attendance has just created the record of an id that has no employee
\* row, in Pending_Manager, beside the manager's record in Pending_Admin.
C23_Witness ==
    /\ resp = Answer("mark_attendance", 200)
    /\ \E r \in DOMAIN att, q \in DOMAIN att :
          /\ att[r].employee_id = 2
          /\ att[r].approval_status = "Pending_Admin"
          /\ att[q].employee_id \notin DOMAIN employees
          /\ att[q].approval_status = "Pending_Manager"
          /\ ~att[r].is_confirmed /\ ~att[q].is_confirmed

WorkflowKept ==
    \A r \in DOMAIN att :
       /\ r \in DOMAIN att'
       /\ att'[r].approval_status = att[r].approval_status
       /\ att'[r].is_confirmed = att[r].is_confirmed
       /\ att'[r].confirmed_at = att[r].confirmed_at

\* C25: clock operations leave the approval workflow untouched:
\* mark_attendance on an existing record, update_attendance carrying only
\* clockOut and/or status, and create_attendance_entry leave the record's
\* approval_status, is_confirmed and confirmed_at unchanged.
C25_ClockKeepsWorkflow ==
    [][/\ resp'.op \in {"mark_attendance", "create_attendance_entry"} => WorkflowKept
       /\ (resp'.op = "update_attendance" /\ ~WorkflowKept) =>
             \A u \in Callers, r \in RecIds, co \in {None, 1}, s \in {"", "Late"} :
                ~update_attendance(u, r, "", co, s)]_vars

\* mark_attendance has just set the check-out time of a record that was
\* confirmed and approved before, and the record still is.
C25_Witness ==
    /\ resp = Answer("mark_attendance", 200)
    /\ \E r \in DOMAIN att :
          /\ att[r].approval_status = "Approved"
          /\ att[r].is_confirmed
          /\ att[r].confirmed_at # NoDatetime
          /\ att[r].check_out_time = <<today, 2>>

\* The step keeps every record, with its owner, date and check-in time.
CheckInKept ==
    \A r \in DOMAIN att :
       /\ r \in DOMAIN att'
       /\ att'[r].check_in_time = att[r].check_in_time
       /\ att'[r].employee_id = att[r].employee_id
       /\ att'[r].date = att[r].date

\* C30: the check-in time of a record is the first one: once a record
\* exists, no later mark_attendance, update_attendance,
\* create_attendance_entry or confirm_attendance call changes its
\* check_in_time, employee_id or date.
C30_CheckInIsFirst ==
    [][resp'.op \in {"mark_attendance", "update_attendance",
                     "create_attendance_entry", "confirm_attendance"} => CheckInKept]_vars

\* A record checked in at the first time of day was marked again with the
\* second time of day as clockIn, after its confirmation: the check-in time
\* is still the first.
C30_Witness ==
    /\ resp = Answer("mark_attendance", 200)
    /\ \E r \in DOMAIN att :
          /\ att[r].is_confirmed
          /\ att[r].check_in_time = <<today, 1>>
          /\ att[r].check_out_time = <<today, 2>>
          /\ att[r].status = "Present"

\* C26: leave-day conservation: after any sequence of create, approve,
\* reject and delete operations on leave requests within one calendar year,
\* starting with no balance rows, each employee's used_leaves equals the sum
\* of (end - start) + 1 over that employee's requests whose status is
\* currently approved; an employee with no balance row has none approved.
C26_LeaveDayConservation ==
    \A e \in Callers :
       LET rows == BalancesOf(e, current_year)
       IN  IF rows = {}
             THEN ApprovedOf(e) = {}
             ELSE \A b \in rows : balances[b].used_leaves = SumDays(ApprovedOf(e))

\* C27: a leave balance never goes negative: after any sequence of leave
\* approvals every LeaveBalance row has remaining_leaves >= 0 and
\* used_leaves <= total_leaves.
C27_BalanceNeverNegative ==
    \A b \in DOMAIN balances :
       /\ balances[b].remaining_leaves >= 0
       /\ balances[b].used_leaves <= balances[b].total_leaves

====
